---- MODULE Spec2Model ----
(***************************************************************************)
(* Visit lifecycle and treatment ledger of the healthcare backend.         *)
(*                                                                         *)
(* The record store is the Visit collection.  A handler of the visit       *)
(* controller reads one visit document (Visit.findOne), changes its copy,  *)
(* and writes the changed paths back (visit.save()).  The specifications   *)
(* are given over the same handlers:                                       *)
(*   Spec   every request runs to completion before the next starts;       *)
(*   SpecC  on one visit, a lifecycle or ledger request may wait between   *)
(*          its read and its save() while other requests are served;       *)
(*   SpecV  the same for createVisit and the lifecycle requests, on a      *)
(*          store that starts empty;                                       *)
(*   SpecU  one visit, its clinical text fields updated and its payment    *)
(*          recorded between lifecycle and ledger requests, each run to    *)
(*          completion;                                                    *)
(*   SpecS  the finance controller: searchVisits and updatePaymentStatus   *)
(*          between requests that create, bill and close visits;           *)
(*   SpecD  the dashboard statistics of the finance controller, over       *)
(*          visits billed at different prices.                             *)
(***************************************************************************)
EXTENDS Integers, Sequences, FiniteSets, TLC

\* ------------------------------------------------------------- bounds
MaxVisits == 2
MaxTreatmentIds == 2
MaxTime == 2

\* ------------------------------------------------------------- users
Doctors == {"d1", "d2"}
Patients == {"p1"}

\* The users collection: the doctors and the patients, who are active, a
\* doctor who is not, a user of the finance role, and one more patient.
User ==
    [u \in Doctors \cup Patients \cup {"d3", "f1", "p2"} |->
        [ role |-> IF u \in Doctors \cup {"d3"} THEN "doctor"
                   ELSE IF u = "f1" THEN "finance" ELSE "patient",
          isActive |-> u # "d3" ]]

\* Mutant: a doctor is found whether active or not.
findDoctorOfAnyActivity(doctorId) ==
    doctorId \in DOMAIN User /\ User[doctorId].role = "doctor"

\* User.findOne({ _id: doctorId, role: "doctor", isActive: true })
findDoctor(doctorId) ==
    /\ doctorId \in DOMAIN User
    /\ User[doctorId].role = "doctor"
    /\ User[doctorId].isActive

\* A price or an amount n stands for n times 0.004 of the currency (two
\* fifths of a cent): the validation accepts any number >= 0 as a unitPrice,
\* a fraction of a cent included.
\* Values a request body may carry for quantity and for unitPrice; an
\* omitted quantity is 1 in addTreatment.
InputQuantities == {0, 2}
InputPrices == {-1, 0, 2}

NullTime == 0

\* A text is a sequence of characters; a path that was never set is undefined.
Undefined == <<"undefined">>

\* Texts a request body may carry for chiefComplaint, diagnosis and notes.
InputTexts == { <<>>, <<" ">>, <<" ", "f">> }

VARIABLES visits, nextTid, pending

vars == <<visits, nextTid, pending>>

\* ------------------------------------------------------------- responses
Response(status, msg) == [status |-> status, msg |-> msg]

NoResponse == Response("none", "none")

VisitNotFound == Response("NOT_FOUND", "Visit not found")

\* errorHandler: an error thrown by save() leaves res.statusCode at its
\* default, and is answered 500.
VersionError == Response("INTERNAL_SERVER_ERROR", "VersionError")

\* The 400 answers of the handlers that refuse a visit for its status.
InvalidTransitionMessages ==
    { "Cannot start visit with status",
      "Cannot update visit with status",
      "Visit is already completed",
      "Cannot complete a cancelled visit",
      "Cannot cancel a completed visit",
      "Visit is already cancelled",
      "Cannot add treatment to visit with status",
      "Cannot update treatment in visit with status",
      "Cannot delete treatment from visit with status" }

IsInvalidTransition(r) ==
    r.status = "BAD_REQUEST" /\ r.msg \in InvalidTransitionMessages

ActiveVisitMessage == "This doctor already has an active visit scheduled"

IsConflict(r) == r.status = "BAD_REQUEST" /\ r.msg = ActiveVisitMessage

\* ------------------------------------------------------------- documents
Has(body, f) == f \in DOMAIN body

\* Mutant: the visit is created paid.
NewVisitPaid(patientId, body) ==
    [ patient |-> patientId, doctor |-> body.doctorId, status |-> "scheduled",
      scheduledDate |-> body.scheduledDate,
      startTime |-> NullTime, endTime |-> NullTime,
      chiefComplaint |-> IF Has(body, "chiefComplaint")
                         THEN body.chiefComplaint ELSE Undefined,
      diagnosis |-> Undefined, notes |-> Undefined, treatments |-> <<>>,
      totalAmount |-> 0, paymentStatus |-> "paid" ]

\* Visit.create({ patient, doctor, scheduledDate, chiefComplaint, status })
\* with the schema's defaults.
NewVisit(patientId, body) ==
    [ patient |-> patientId, doctor |-> body.doctorId, status |-> "scheduled",
      scheduledDate |-> body.scheduledDate,
      startTime |-> NullTime, endTime |-> NullTime,
      chiefComplaint |-> IF Has(body, "chiefComplaint")
                         THEN body.chiefComplaint ELSE Undefined,
      diagnosis |-> Undefined, notes |-> Undefined, treatments |-> <<>>,
      totalAmount |-> 0, paymentStatus |-> "pending" ]

ClinicalPaths == {"chiefComplaint", "diagnosis", "notes"}

ScalarPaths ==
    {"patient", "doctor", "scheduledDate", "status", "startTime", "endTime",
     "totalAmount", "paymentStatus"}
        \cup ClinicalPaths

TreatmentPaths == {"quantity", "unitPrice", "totalPrice", "category"}

\* The enum of a treatment's category.
Categories ==
    {"consultation", "medication", "procedure", "lab_test", "imaging", "other"}

RECURSIVE reduceTotalPrice(_, _)
reduceTotalPrice(treatments, sum) ==
    IF treatments = <<>> THEN sum
    ELSE reduceTotalPrice(Tail(treatments), sum + Head(treatments).totalPrice)

\* Mutant: the sum of the unit prices, the quantities forgotten.
RECURSIVE reduceUnitPrice(_, _)
reduceUnitPrice(treatments, sum) ==
    IF treatments = <<>> THEN sum
    ELSE reduceUnitPrice(Tail(treatments), sum + Head(treatments).unitPrice)

calculateTotalAmountOfUnitPrices(treatments) == reduceUnitPrice(treatments, 0)

\* visitSchema.methods.calculateTotalAmount
calculateTotalAmount(treatments) == reduceTotalPrice(treatments, 0)

\* Mutant: a visit in progress is not counted as active.
hasScheduledVisit(vs, doctorId) ==
    \E i \in DOMAIN vs : vs[i].doctor = doctorId /\ vs[i].status = "scheduled"

\* Mutant: a scheduled visit is not counted as active.
hasVisitInProgress(vs, doctorId) ==
    \E i \in DOMAIN vs : vs[i].doctor = doctorId /\ vs[i].status = "in_progress"

\* visitSchema.statics.hasActiveVisit
hasActiveVisit(vs, doctorId) ==
    \E i \in DOMAIN vs :
        vs[i].doctor = doctorId /\ vs[i].status \in {"scheduled", "in_progress"}

\* Mutant: the visit is looked up by its id alone.
findById(vs, id, doctorId) == id \in DOMAIN vs

\* Visit.findOne({ _id: id, doctor: doctorId }) finds a document.
findOne(vs, id, doctorId) == id \in DOMAIN vs /\ vs[id].doctor = doctorId

\* Mutant: an id that is not in the list finds the first subdocument.
treatmentPosOrFirst(treatments, treatmentId) ==
    IF \E i \in DOMAIN treatments : treatments[i].id = treatmentId
    THEN CHOOSE i \in DOMAIN treatments : treatments[i].id = treatmentId
    ELSE IF treatments # <<>> THEN 1 ELSE 0

\* visit.treatments.id(treatmentId): the position of the subdocument, 0 if none.
treatmentPos(treatments, treatmentId) ==
    IF \E i \in DOMAIN treatments : treatments[i].id = treatmentId
    THEN CHOOSE i \in DOMAIN treatments : treatments[i].id = treatmentId
    ELSE 0

\* ------------------------------------------------------------- save()
\* What visit.save() sends to the store: the paths the handler changed.
\*   set    changed top-level paths and their new values ($set)
\*   push   subdocuments appended with treatments.push ($push)
\*   pull   ids removed with treatments.pull ($pull by _id)
\*   setT   changed paths of one subdocument, by position ($set treatments.i.f)
\*   vwhere whether the update requires the version key __v it read: an
\*          update of a path inside the array is refused (VersionError) when
\*          a push or a pull was stored since the document was read
\*   vinc   whether the update increments the version key (a push or a pull)
\*   insert documents created with Visit.create
\* The version key is a counter that only vinc updates increment, so the
\* version a request read is the stored one exactly when no vinc update of
\* the same visit was stored after its read: `stale' records that.
EmptyUpdate ==
    [ id |-> 0, set |-> <<>>, push |-> <<>>, pull |-> {}, setT |-> <<>>,
      vwhere |-> FALSE, vinc |-> FALSE, insert |-> <<>> ]

\* The changed paths among `paths`, as a function from path to new value.
Delta(old, new, paths) == [f \in {g \in paths : old[g] # new[g]} |-> new[f]]

Merge(rec, changes) ==
    [f \in DOMAIN rec |-> IF f \in DOMAIN changes THEN changes[f] ELSE rec[f]]

\* The store rejects an update whose required version is not the stored one.
VersionConflict(o) == o.upd.vwhere /\ o.stale

\* Mutant: a pushed subdocument is put before the others.
ApplyUpdateUnshifting(doc, u) ==
    LET Keep(t) == t.id \notin u.pull
        kept == SelectSeq(doc.treatments, Keep)
    IN  [Merge(doc, u.set) EXCEPT !.treatments = u.push \o kept]

ApplyUpdate(doc, u) ==
    LET Keep(t) == t.id \notin u.pull
        kept == SelectSeq(doc.treatments, Keep)
        patched == [i \in DOMAIN kept |->
                      IF \E k \in DOMAIN u.setT : u.setT[k].pos = i
                      THEN Merge(kept[i],
                                 u.setT[CHOOSE k \in DOMAIN u.setT : u.setT[k].pos = i].fields)
                      ELSE kept[i]]
        scalars == Merge(doc, u.set)
    IN  [scalars EXCEPT !.treatments = patched \o u.push]

\* The store after the update of one save() or create().
save(vs, o) ==
    IF o.upd.insert # <<>> THEN vs \o o.upd.insert
    ELSE IF o.upd.id \notin DOMAIN vs \/ VersionConflict(o) THEN vs
    ELSE [vs EXCEPT ![o.upd.id] = ApplyUpdate(@, o.upd)]

\* A handler's outcome on the documents it read: its answer, and the update
\* its save() sends (write) if it got that far.
Answer(r) == [res |-> r, write |-> FALSE, upd |-> EmptyUpdate, stale |-> FALSE]

Write(r, u) == [res |-> r, write |-> TRUE, upd |-> u, stale |-> FALSE]

Idle == Answer(NoResponse)
\* ------------------------------------------------------------- request bodies
\* A body carries any subset of the numeric fields; an omitted field is
\* undefined in the handler.
TreatmentBodies ==
    { b \in UNION { [D -> InputQuantities \cup InputPrices] :
                       D \in SUBSET {"quantity", "unitPrice"} } :
        /\ "quantity" \in DOMAIN b => b.quantity \in InputQuantities
        /\ "unitPrice" \in DOMAIN b => b.unitPrice \in InputPrices }

ValidationFailed == Response("BAD_REQUEST", "Validation failed")

\* Mutant: the unit price is not checked.
addTreatmentValidationOfQuantity(body) ==
    /\ Has(body, "quantity") => body.quantity >= 1
    /\ Has(body, "unitPrice")

\* addTreatmentValidation, then validate: quantity optional, an integer >= 1;
\* unitPrice required, a number >= 0.
addTreatmentValidation(body) ==
    /\ Has(body, "quantity") => body.quantity >= 1
    /\ Has(body, "unitPrice") /\ body.unitPrice >= 0
    /\ Has(body, "category") => body.category \in Categories

\* updateTreatmentValidation, then validate: both optional.
updateTreatmentValidation(body) ==
    /\ Has(body, "quantity") => body.quantity >= 1
    /\ Has(body, "unitPrice") => body.unitPrice >= 0
    /\ Has(body, "category") => body.category \in Categories

\* String.prototype.trim, on a text.
RECURSIVE trimStart(_)
trimStart(text) ==
    IF text # <<>> /\ Head(text) = " " THEN trimStart(Tail(text)) ELSE text

RECURSIVE trimEnd(_)
trimEnd(text) ==
    IF text # <<>> /\ text[Len(text)] = " "
    THEN trimEnd(SubSeq(text, 1, Len(text) - 1))
    ELSE text

trim(text) == trimEnd(trimStart(text))

\* Mutant: the text is kept as the request carries it.
trimmedNothing(body, paths) == body

\* The body as the handler sees it: .trim() replaces the text of a field
\* the body carries.
trimmed(body, paths) ==
    [f \in DOMAIN body |-> IF f \in paths THEN trim(body[f]) ELSE body[f]]

\* isLength({ max }) of the three texts.
maxlength == [chiefComplaint |-> 1000, diagnosis |-> 2000, notes |-> 5000]

\* A createVisit body: doctorId, scheduledDate (NullTime when it is missing
\* or empty) and, optionally, chiefComplaint.
VisitBodies(doctorIds, dates, texts) ==
    { [doctorId |-> d, scheduledDate |-> s] : d \in doctorIds, s \in dates }
    \cup { [doctorId |-> d, scheduledDate |-> s, chiefComplaint |-> c] :
              d \in doctorIds, s \in dates, c \in texts }

\* createVisitValidation, then validate, at time t: scheduledDate required
\* and not before now; chiefComplaint optional, at most 1000 characters.
createVisitValidation(body, t) ==
    /\ body.scheduledDate # NullTime
    /\ ~(body.scheduledDate < t)
    /\ Has(body, "chiefComplaint")
          => Len(trim(body.chiefComplaint)) <= maxlength.chiefComplaint

\* An updateVisit body carries any subset of the three texts.
ClinicalBodies ==
    UNION { [D -> InputTexts] : D \in SUBSET ClinicalPaths }

\* A body that carries, beside a text, fields that updateVisit does not
\* name.
ForeignBodies ==
    { [notes |-> c, doctor |-> d, patient |-> d, status |-> "completed"] :
        c \in InputTexts, d \in Doctors }

\* updateVisitValidation, then validate: each text optional, trimmed, and
\* within its length.
updateVisitValidation(body) ==
    \A f \in DOMAIN body \cap ClinicalPaths : Len(trim(body[f])) <= maxlength[f]

\* Mutant: every field of the body is assigned to the visit.
updateVisitFieldsOfBody(body) == body

\* const { diagnosis, notes, chiefComplaint } = req.body: the fields the
\* handler assigns, each when it is not undefined.
updateVisitFields(body) ==
    [f \in DOMAIN body \cap ClinicalPaths |-> body[f]]

\* Mutant: any value is accepted.
updatePaymentValidationOfAny(paymentStatus) == paymentStatus # ""

\* Values a request may carry for paymentStatus.
InputPaymentStatuses == {"pending", "partial", "paid", "refunded"}

\* updatePaymentValidation, then validate; the handler repeats the check.
updatePaymentValidation(paymentStatus) ==
    paymentStatus \in {"pending", "partial", "paid"}

\* ------------------------------------------------------------- handlers
\* Each handler is given the store it reads (vs), and yields its outcome.

\* Mutant: of the changed paths only status is sent.
ScalarUpdateOfStatus(id, old, new) ==
    [EmptyUpdate EXCEPT !.id = id, !.set = Delta(old, new, {"status"})]

\* An update of top-level paths only: no array path, so no version is required.
ScalarUpdate(id, old, new) ==
    [EmptyUpdate EXCEPT !.id = id, !.set = Delta(old, new, ScalarPaths)]

\* createVisit at time t: the validation, the doctor lookup, the
\* active-visit check, and Visit.create.
createVisitOutcome(vs, patientId, body, t) ==
    IF ~createVisitValidation(body, t) THEN Answer(ValidationFailed)
    ELSE IF ~findDoctor(body.doctorId)
    THEN Answer(Response("NOT_FOUND", "Doctor not found or inactive"))
    ELSE IF hasActiveVisit(vs, body.doctorId)
    THEN Answer(Response("BAD_REQUEST", ActiveVisitMessage))
    ELSE Write(Response("CREATED", "Visit scheduled successfully"),
               [EmptyUpdate EXCEPT !.insert =
                   <<NewVisit(patientId, trimmed(body, ClinicalPaths))>>])

\* Mutant: a visit in progress can be started again.
startVisitRefusesTerminal(status) == status \in {"completed", "cancelled"}

\* startVisit refuses every status but scheduled.
startVisitRefuses(status) == status # "scheduled"

startVisitOutcome(vs, doctorId, id, t) ==
    IF ~findOne(vs, id, doctorId) THEN Answer(VisitNotFound)
    ELSE IF startVisitRefuses(vs[id].status)
    THEN Answer(Response("BAD_REQUEST", "Cannot start visit with status"))
    ELSE Write(Response("OK", "Visit started successfully"),
               ScalarUpdate(id, vs[id],
                   [vs[id] EXCEPT !.status = "in_progress", !.startTime = t]))

\* Mutant: a cancelled visit is not refused.
updateVisitRefusesCompleted(status) == status = "completed"

\* updateVisit refuses a completed or cancelled visit.
updateVisitRefuses(status) == status \in {"completed", "cancelled"}

\* updateVisit: each text the body carries replaces the stored one.
updateVisitOutcome(vs, doctorId, id, body) ==
    IF ~updateVisitValidation(body) THEN Answer(ValidationFailed)
    ELSE IF ~findOne(vs, id, doctorId) THEN Answer(VisitNotFound)
    ELSE IF updateVisitRefuses(vs[id].status)
    THEN Answer(Response("BAD_REQUEST", "Cannot update visit with status"))
    ELSE Write(Response("OK", "Visit updated successfully"),
               ScalarUpdate(id, vs[id],
                   Merge(vs[id], updateVisitFields(trimmed(body, ClinicalPaths)))))

\* Mutant: only a visit in progress can be completed.
completeVisitRefusesUnstarted(status) == status # "in_progress"

\* completeVisit refuses completed and cancelled, each with its own message.
completeVisitRefuses(status) == status \in {"completed", "cancelled"}

completeVisitOutcome(vs, doctorId, id, t) ==
    IF ~findOne(vs, id, doctorId) THEN Answer(VisitNotFound)
    ELSE IF completeVisitRefuses(vs[id].status)
    THEN Answer(Response("BAD_REQUEST",
                    IF vs[id].status = "completed"
                    THEN "Visit is already completed"
                    ELSE "Cannot complete a cancelled visit"))
    ELSE Write(Response("OK", "Visit completed successfully"),
               ScalarUpdate(id, vs[id],
                   [vs[id] EXCEPT !.status = "completed", !.endTime = t]))

\* cancelVisit: a patient is matched on visit.patient, a doctor on visit.doctor.
cancelVisitFinds(vs, userId, id) ==
    /\ id \in DOMAIN vs
    /\ IF User[userId].role = "patient" THEN vs[id].patient = userId
       ELSE vs[id].doctor = userId

\* Mutant: the check of a completed visit is missing.
cancelVisitRefusesCancelled(status) == status = "cancelled"

\* cancelVisit refuses completed and cancelled, each with its own message.
cancelVisitRefuses(status) == status \in {"completed", "cancelled"}

\* Mutant: a cancellation ends the visit, at the latest time.
cancelVisitSettingEndTime(vs, userId, id) ==
    IF ~cancelVisitFinds(vs, userId, id) THEN Answer(VisitNotFound)
    ELSE IF cancelVisitRefuses(vs[id].status)
    THEN Answer(Response("BAD_REQUEST", "Visit is already cancelled"))
    ELSE Write(Response("OK", "Visit cancelled successfully"),
               ScalarUpdate(id, vs[id], [vs[id] EXCEPT !.status = "cancelled",
                                                       !.endTime = MaxTime]))

cancelVisitOutcome(vs, userId, id) ==
    IF User[userId].role \notin {"patient", "doctor"}
    THEN Answer(Response("FORBIDDEN", "Not authorized to cancel visits"))
    ELSE IF ~cancelVisitFinds(vs, userId, id) THEN Answer(VisitNotFound)
    ELSE IF cancelVisitRefuses(vs[id].status)
    THEN Answer(Response("BAD_REQUEST",
                    IF vs[id].status = "completed"
                    THEN "Cannot cancel a completed visit"
                    ELSE "Visit is already cancelled"))
    ELSE Write(Response("OK", "Visit cancelled successfully"),
               ScalarUpdate(id, vs[id], [vs[id] EXCEPT !.status = "cancelled"]))

\* Mutant: a cancelled visit is not refused.
ledgerRefusesCompleted(status) == status = "completed"

\* The three ledger handlers refuse a completed or cancelled visit.
ledgerRefuses(status) == status \in {"completed", "cancelled"}

\* addTreatment: const qty = quantity || 1; const totalPrice = unitPrice * qty.
addTreatmentItem(body, tid) ==
    LET qty == IF Has(body, "quantity") /\ body.quantity # 0
               THEN body.quantity ELSE 1
    IN  [ id |-> tid, quantity |-> qty, unitPrice |-> body.unitPrice,
          totalPrice |-> body.unitPrice * qty,
          category |-> IF Has(body, "category") THEN body.category ELSE "other" ]

addTreatmentOutcome(vs, doctorId, id, body, tid) ==
    IF ~addTreatmentValidation(body) THEN Answer(ValidationFailed)
    ELSE IF ~findOne(vs, id, doctorId) THEN Answer(VisitNotFound)
    ELSE IF ledgerRefuses(vs[id].status)
    THEN Answer(Response("BAD_REQUEST", "Cannot add treatment to visit with status"))
    ELSE LET item == addTreatmentItem(body, tid)
             new == [vs[id] EXCEPT
                       !.totalAmount = calculateTotalAmount(Append(vs[id].treatments, item))]
         IN  Write(Response("CREATED", "Treatment added successfully"),
                   [EmptyUpdate EXCEPT !.id = id,
                       !.set = Delta(vs[id], new, ScalarPaths),
                       !.push = <<item>>, !.vinc = TRUE])

\* Mutant: the total price is not recalculated.
updateTreatmentItemKeepingTotal(treatment, body) ==
    [treatment EXCEPT
       !.quantity = IF "quantity" \in DOMAIN body THEN body.quantity ELSE @,
       !.unitPrice = IF "unitPrice" \in DOMAIN body THEN body.unitPrice ELSE @,
       !.category = IF "category" \in DOMAIN body THEN body.category ELSE @]

\* updateTreatment: the supplied fields, then totalPrice = unitPrice * quantity.
updateTreatmentItem(treatment, body) ==
    LET fields == [treatment EXCEPT
                     !.quantity = IF Has(body, "quantity") THEN body.quantity ELSE @,
                     !.unitPrice = IF Has(body, "unitPrice") THEN body.unitPrice ELSE @,
                     !.category = IF Has(body, "category") THEN body.category ELSE @]
    IN  [fields EXCEPT !.totalPrice = fields.unitPrice * fields.quantity]

updateTreatmentOutcome(vs, doctorId, id, treatmentId, body) ==
    IF ~updateTreatmentValidation(body) THEN Answer(ValidationFailed)
    ELSE IF ~findOne(vs, id, doctorId) THEN Answer(VisitNotFound)
    ELSE IF ledgerRefuses(vs[id].status)
    THEN Answer(Response("BAD_REQUEST", "Cannot update treatment in visit with status"))
    ELSE IF treatmentPos(vs[id].treatments, treatmentId) = 0
    THEN Answer(Response("NOT_FOUND", "Treatment not found"))
    ELSE LET pos == treatmentPos(vs[id].treatments, treatmentId)
             old == vs[id].treatments[pos]
             item == updateTreatmentItem(old, body)
             changed == Delta(old, item, TreatmentPaths)
             new == [vs[id] EXCEPT
                       !.totalAmount = calculateTotalAmount(
                                          [vs[id].treatments EXCEPT ![pos] = item])]
         IN  Write(Response("OK", "Treatment updated successfully"),
                   [EmptyUpdate EXCEPT !.id = id,
                       !.set = Delta(vs[id], new, ScalarPaths),
                       !.setT = IF DOMAIN changed = {} THEN <<>>
                                ELSE <<[pos |-> pos, fields |-> changed]>>,
                       !.vwhere = DOMAIN changed # {}])

\* Mutant: the first subdocument is removed, whatever its id.
pullHead(treatments, treatmentId) ==
    IF treatments = <<>> THEN <<>> ELSE Tail(treatments)

\* deleteTreatment: visit.treatments.pull(treatmentId), then the total.
pull(treatments, treatmentId) ==
    LET Keep(t) == t.id # treatmentId IN SelectSeq(treatments, Keep)

\* Mutant: the total is not recalculated after the pull.
deleteTreatmentKeepingTotal(vs, doctorId, id, treatmentId) ==
    IF ~findOne(vs, id, doctorId) THEN Answer(VisitNotFound)
    ELSE IF ledgerRefuses(vs[id].status)
    THEN Answer(Response("BAD_REQUEST", "Cannot delete treatment from visit with status"))
    ELSE Write(Response("OK", "Treatment deleted successfully"),
               [EmptyUpdate EXCEPT !.id = id, !.pull = {treatmentId}, !.vinc = TRUE])

deleteTreatmentOutcome(vs, doctorId, id, treatmentId) ==
    IF ~findOne(vs, id, doctorId) THEN Answer(VisitNotFound)
    ELSE IF ledgerRefuses(vs[id].status)
    THEN Answer(Response("BAD_REQUEST", "Cannot delete treatment from visit with status"))
    ELSE LET new == [vs[id] EXCEPT
                       !.totalAmount = calculateTotalAmount(
                                          pull(vs[id].treatments, treatmentId))]
         IN  Write(Response("OK", "Treatment deleted successfully"),
                   [EmptyUpdate EXCEPT !.id = id,
                       !.set = Delta(vs[id], new, ScalarPaths),
                       !.pull = {treatmentId}, !.vinc = TRUE])

\* updatePaymentStatus (finance): Visit.findById, the new paymentStatus.
updatePaymentStatusOutcome(vs, id, paymentStatus) ==
    IF ~updatePaymentValidation(paymentStatus) THEN Answer(ValidationFailed)
    ELSE IF id \notin DOMAIN vs THEN Answer(VisitNotFound)
    ELSE Write(Response("OK", "Payment status updated successfully"),
               ScalarUpdate(id, vs[id],
                   [vs[id] EXCEPT !.paymentStatus = paymentStatus]))

\* ------------------------------------------------------------- searchVisits
\* The users collection: the name of each user.
UserName ==
    [u \in Doctors \cup Patients |->
        CASE u = "d1" -> <<"A", "l">>
          [] u = "d2" -> <<"B", "a">>
          [] OTHER -> <<"P", "a">>]

toLowerCase(c) ==
    CASE c = "A" -> "a" [] c = "B" -> "b" [] c = "P" -> "p" [] OTHER -> c

\* { $regex: pattern, $options: "i" } with a pattern of letters: the pattern
\* occurs in the text, case ignored.
regexMatches(text, pattern) ==
    \E k \in 0..(Len(text) - Len(pattern)) :
        \A j \in 1..Len(pattern) :
            toLowerCase(text[k + j]) = toLowerCase(pattern[j])

\* The defaults of the paging parameters.
searchDefaults ==
    [page |-> 1, limit |-> 20, sortBy |-> "scheduledDate", sortOrder |-> "desc"]

\* The filters of a query; a filter that is not supplied is falsy: 0, "",
\* NullTime or the empty text.
SearchFilters ==
    [ visitId : {0, 1}, status : {"", "completed"}, paymentStatus : {"", "paid"},
      startDate : {NullTime, MaxTime}, endDate : {NullTime, 1},
      doctorName : {<<>>, <<"a">>, <<"b">>}, patientName : {<<>>, <<"p">>} ]

\* How many filters a query supplies.
suppliedFilters(f) ==
    (IF f.visitId # 0 THEN 1 ELSE 0) + (IF f.status # "" THEN 1 ELSE 0)
    + (IF f.paymentStatus # "" THEN 1 ELSE 0)
    + (IF f.startDate # NullTime THEN 1 ELSE 0)
    + (IF f.endDate # NullTime THEN 1 ELSE 0)
    + (IF f.doctorName # <<>> THEN 1 ELSE 0)
    + (IF f.patientName # <<>> THEN 1 ELSE 0)

\* The paging parameters: the defaults, or a page of one or two visits by
\* date, latest first, or by amount, least first.
SearchPagings ==
    {searchDefaults} \cup
    { [page |-> p, limit |-> l, sortBy |-> k[1], sortOrder |-> k[2]] :
        p \in {1, 2}, l \in {1, 2},
        k \in {<<"scheduledDate", "desc">>, <<"totalAmount", "asc">>} }

\* The queries: none, one or two of the filters, and the paging parameters.
Queries ==
    {f @@ g : f \in {h \in SearchFilters : suppliedFilters(h) <= 2},
              g \in SearchPagings}

\* The _id of a stored visit is an ObjectId; the visitId of a query is the
\* string req.query carries.  An aggregation pipeline is sent to the store
\* as it is written (Model.aggregate casts no stage to the schema), and in
\* the store a string equals no ObjectId.
ObjectId(id) == [bsonType |-> "objectId", hex |-> id]

hexString(id) == [bsonType |-> "string", hex |-> id]

\* The $match stage built from visitId, status, paymentStatus and the dates.
matchesQuery(visit, id, q) ==
    /\ q.visitId # 0 => ObjectId(id) = hexString(q.visitId)
    /\ q.status # "" => visit.status = q.status
    /\ q.paymentStatus # "" => visit.paymentStatus = q.paymentStatus
    /\ q.startDate # NullTime => visit.scheduledDate >= q.startDate
    /\ q.endDate # NullTime => visit.scheduledDate <= q.endDate

matched(vs, q) == {i \in DOMAIN vs : matchesQuery(vs[i], i, q)}

\* $lookup and $unwind of patient and doctor, then the two name filters.
named(vs, q) ==
    {i \in matched(vs, q) :
        /\ vs[i].patient \in DOMAIN UserName
        /\ vs[i].doctor \in DOMAIN UserName
        /\ q.patientName # <<>> => regexMatches(UserName[vs[i].patient], q.patientName)
        /\ q.doctorName # <<>> => regexMatches(UserName[vs[i].doctor], q.doctorName)}

\* { $sort: { [sortBy]: sortDirection } }: the documents in an order of
\* their keys; the order of documents with equal keys is not determined,
\* and may differ from one aggregation to the next.
sortOutcomes(vs, ids, sortBy, sortDirection) ==
    LET n == Cardinality(ids)
    IN  { order \in [1..n -> ids] :
            /\ \A a, b \in 1..n : a # b => order[a] # order[b]
            /\ \A a \in 1..(n - 1) :
                  sortDirection * vs[order[a]][sortBy]
                      <= sortDirection * vs[order[a + 1]][sortBy] }

\* $skip and $limit.
skipLimit(order, skip, limit) ==
    SubSeq(order, skip + 1,
           IF skip + limit < Len(order) THEN skip + limit ELSE Len(order))

\* Math.ceil(total / limit)
ceil(total, limit) == (total + limit - 1) \div limit

RECURSIVE sumTotalAmount(_, _)
sumTotalAmount(vs, ids) ==
    IF ids = {} THEN 0
    ELSE LET i == CHOOSE j \in ids : TRUE
         IN  vs[i].totalAmount + sumTotalAmount(vs, ids \ {i})

\* Mutant: the digits after the second decimal are cut off.
toFixedTruncating(amount) ==
    LET cents == (4 * amount) \div 10
    IN  [ units |-> cents \div 100,
          decimals |-> <<(cents \div 10) % 10, cents % 10>> ]

\* parseFloat(amount).toFixed(2): the amount to the nearest cent, with two
\* decimals.  An amount n is n times 0.004 of the currency, that is 4n/10
\* cents, which is never half-way between two cents.
toFixed(amount) ==
    LET cents == (4 * amount + 5) \div 10
    IN  [ units |-> cents \div 100,
          decimals |-> <<(cents \div 10) % 10, cents % 10>> ]

\* The $group stage over the documents `ids', and the answer's statistics.
statisticsOf(vs, ids) ==
    [ totalRevenue |-> toFixed(sumTotalAmount(vs, ids)),
      completedVisits |-> Cardinality({i \in ids : vs[i].status = "completed"}),
      pendingPayments |-> Cardinality({i \in ids : vs[i].paymentStatus = "pending"}),
      partialPayments |-> Cardinality({i \in ids : vs[i].paymentStatus = "partial"}),
      paidVisits |-> Cardinality({i \in ids : vs[i].paymentStatus = "paid"}) ]

\* searchVisits: the answers it can give to query q on store vs, one for
\* each order the $sort stage can produce.  The answer's visits are given
\* by their ids.
searchVisitsOutcomes(vs, q) ==
    LET total == Cardinality(named(vs, q))
        sortDirection == IF q.sortOrder = "asc" THEN 1 ELSE -1
        skip == (q.page - 1) * q.limit
    IN  { [ status |-> "OK",
            count |-> Len(skipLimit(order, skip, q.limit)),
            total |-> total,
            page |-> q.page,
            pages |-> ceil(total, q.limit),
            statistics |-> statisticsOf(vs, matched(vs, q)),
            visits |-> skipLimit(order, skip, q.limit) ] :
          order \in sortOutcomes(vs, named(vs, q), q.sortBy, sortDirection) }

\* ------------------------------------------------------------- getDashboardStats
\* Mutant: every visit counts, whatever its status.
allVisits(vs) == DOMAIN vs

\* $cond: [{ $eq: ["$status", "completed"] }, ...]: the visits that count
\* towards the revenue.
completedVisits(vs) == {i \in DOMAIN vs : vs[i].status = "completed"}

\* (numerator / denominator).toFixed(2): the quotient to the nearest
\* hundredth, a half rounded up.
toFixedOf(numerator, denominator) ==
    LET hundredths == (200 * numerator + denominator) \div (2 * denominator)
    IN  [ units |-> hundredths \div 100,
          decimals |-> <<(hundredths \div 10) % 10, hundredths % 10>> ]

\* stats.totalRevenue > 0 ? (paidAmount / totalRevenue * 100).toFixed(2) + "%" : "0%"
collectionRate(paidAmount, totalRevenue) ==
    IF totalRevenue > 0
    THEN [number |-> toFixedOf(paidAmount * 100, totalRevenue), suffix |-> "%"]
    ELSE [number |-> [units |-> 0, decimals |-> <<>>], suffix |-> "%"]

\* The overall statistics of the dashboard.
overallStats(vs) ==
    LET counted == completedVisits(vs)
        paid == {i \in counted : vs[i].paymentStatus = "paid"}
        unpaid == {i \in counted : vs[i].paymentStatus = "pending"}
        Count(status) == Cardinality({i \in DOMAIN vs : vs[i].status = status})
    IN  [ totalVisits |-> Len(vs),
          completedVisits |-> Count("completed"),
          scheduledVisits |-> Count("scheduled"),
          inProgressVisits |-> Count("in_progress"),
          cancelledVisits |-> Count("cancelled"),
          totalRevenue |-> toFixed(sumTotalAmount(vs, counted)),
          pendingPayments |-> toFixed(sumTotalAmount(vs, unpaid)),
          paidAmount |-> toFixed(sumTotalAmount(vs, paid)),
          collectionRate |-> collectionRate(sumTotalAmount(vs, paid),
                                            sumTotalAmount(vs, counted)) ]

\* The payment status breakdown: one entry for each paymentStatus that a
\* completed visit has.
paymentBreakdown(vs) ==
    { [ status |-> ps,
        count |-> Cardinality({i \in completedVisits(vs) : vs[i].paymentStatus = ps}),
        amount |-> toFixed(sumTotalAmount(vs,
                      {i \in completedVisits(vs) : vs[i].paymentStatus = ps})) ] :
      ps \in {vs[i].paymentStatus : i \in completedVisits(vs)} }

\* $unwind: "$treatments" of the completed visits: the treatments, each
\* with the visit that holds it.
unwindTreatments(vs) ==
    { <<i, k>> \in (DOMAIN vs) \X (1..MaxTreatmentIds) :
        i \in completedVisits(vs) /\ k \in DOMAIN vs[i].treatments }

\* { $sum: "$treatments.totalPrice" } over the unwound treatments `items'.
RECURSIVE sumTotalPrice(_, _)
sumTotalPrice(vs, items) ==
    IF items = {} THEN 0
    ELSE LET x == CHOOSE y \in items : TRUE
         IN  vs[x[1]].treatments[x[2]].totalPrice + sumTotalPrice(vs, items \ {x})

\* The treatment categories breakdown: one entry for each category that a
\* treatment of a completed visit has (they are sorted by revenue; the
\* order is not kept here).
treatmentCategories(vs) ==
    { [ category |-> c,
        count |-> Cardinality({x \in unwindTreatments(vs) :
                                 vs[x[1]].treatments[x[2]].category = c}),
        revenue |-> toFixed(sumTotalPrice(vs,
                       {x \in unwindTreatments(vs) :
                          vs[x[1]].treatments[x[2]].category = c})) ] :
      c \in {vs[x[1]].treatments[x[2]].category : x \in unwindTreatments(vs)} }

\* getDashboardStats: its answer, as far as it is made of the paths of a
\* visit that are kept here (the statistics by creation time and by doctor
\* are not).
getDashboardStatsOutcome(vs) ==
    Answer([ status |-> "OK",
             overall |-> overallStats(vs),
             paymentBreakdown |-> paymentBreakdown(vs),
             treatmentCategories |-> treatmentCategories(vs) ])

\* ------------------------------------------------------------- duration
\* One unit of the clock is half a minute.
\* Mutant: the duration is given whenever endTime is set.
durationSinceUnset(visit) ==
    IF visit.endTime # NullTime
    THEN <<(2 * 30 * (visit.endTime - visit.startTime) + 60) \div 120>>
    ELSE <<>>

\* The virtual `duration' of a visit: Math.round of the minutes between
\* startTime and endTime when both are set, and null (the empty tuple)
\* otherwise.  Math.round(x) is the floor of x + 1/2.
duration(visit) ==
    IF visit.startTime # NullTime /\ visit.endTime # NullTime
    THEN LET seconds == 30 * (visit.endTime - visit.startTime)
         IN  <<(2 * seconds + 60) \div 120>>
    ELSE <<>>

\* ------------------------------------------------------------- getVisitDetails
\* populate(path, "name ..."): the user of that id, or null (the empty
\* tuple) when there is none.
populate(userId) ==
    IF userId \in DOMAIN UserName THEN <<[name |-> UserName[userId]]>> ELSE <<>>

\* Mutant: the review of a visit records it as paid.
getVisitDetailsMarkingPaid(vs, id) == updatePaymentStatusOutcome(vs, id, "paid")

\* getVisitDetails (finance): Visit.findById, and the visit as toJSON gives
\* it, its virtual included.
getVisitDetailsOutcome(vs, id) ==
    IF id \notin DOMAIN vs THEN Answer(VisitNotFound)
    ELSE Answer([ status |-> "OK",
                  visit |-> [vs[id] EXCEPT !.patient = populate(@),
                                           !.doctor = populate(@)]
                            @@ [duration |-> duration(vs[id])] ])

\* ------------------------------------------------------------- exportVisits
\* The queries of an export: a status and the bounds of scheduledDate, each
\* supplied or not.
ExportQueries ==
    [ status : {"", "completed"}, startDate : {NullTime, MaxTime},
      endDate : {NullTime, 1} ]

\* Visit.find(query)
exportMatches(visit, q) ==
    /\ q.status # "" => visit.status = q.status
    /\ q.startDate # NullTime => visit.scheduledDate >= q.startDate
    /\ q.endDate # NullTime => visit.scheduledDate <= q.endDate

\* One row of the export.
exportData(vs, i) ==
    [ visitId |-> i,
      patientName |-> UserName[vs[i].patient],
      doctorName |-> UserName[vs[i].doctor],
      scheduledDate |-> vs[i].scheduledDate,
      status |-> vs[i].status,
      diagnosis |-> vs[i].diagnosis,
      totalAmount |-> vs[i].totalAmount,
      paymentStatus |-> vs[i].paymentStatus,
      treatmentsCount |-> Len(vs[i].treatments) ]

\* exportVisits (finance): the outcomes it can have, one for each order the
\* sort by scheduledDate can produce; reading the name of a user that
\* populate did not find throws.
exportVisitsOutcomes(vs, q) ==
    LET ids == {i \in DOMAIN vs : exportMatches(vs[i], q)}
    IN  IF \E i \in ids : populate(vs[i].patient) = <<>> \/ populate(vs[i].doctor) = <<>>
        THEN {Answer(Response("INTERNAL_SERVER_ERROR", "TypeError"))}
        ELSE { Answer([ status |-> "OK",
                        count |-> Len(order),
                        data |-> [k \in DOMAIN order |-> exportData(vs, order[k])] ]) :
               order \in sortOutcomes(vs, ids, "scheduledDate", -1) }

\* searchVisits: its outcomes; it answers and saves nothing.
searchVisitsAnswers(vs, q) == {Answer(r) : r \in searchVisitsOutcomes(vs, q)}

\* ------------------------------------------------------------- the system
VisitIds == 1..MaxVisits

TreatmentIds == 1..MaxTreatmentIds

\* new Date(): the clock is read after the visit is; it shows no time earlier
\* than one already stored.
Times == 1..MaxTime

Clock(t) ==
    \A i \in DOMAIN visits : t >= visits[i].startTime /\ t >= visits[i].endTime

Init ==
    /\ visits = <<>>
    /\ nextTid = 1
    /\ pending = Idle

\* The store has room for the document an outcome creates.
Room(o) == o.upd.insert # <<>> => Len(visits) < MaxVisits

\* The store after an outcome's save(), and the answer the client gets.
Stored(vs, o) == IF o.write THEN save(vs, o) ELSE vs

Answered(o) == IF o.write /\ VersionConflict(o) THEN VersionError ELSE o.res

\* What the stored update of `by' makes of a waiting outcome o: stale, when
\* it incremented the version key of the visit o read.
Outdated(o, by) ==
    IF o.write /\ by.write /\ by.upd.vinc /\ o.upd.id = by.upd.id
    THEN [o EXCEPT !.stale = TRUE]
    ELSE o

\* A request served from its read to its answer with no other request's
\* step between.
Serve(o) ==
    /\ Room(o)
    /\ visits' = Stored(visits, o)
    /\ pending' = Outdated(pending, o)

createVisit(patientId, body, t) ==
    Clock(t) /\ Serve(createVisitOutcome(visits, patientId, body, t))
    /\ UNCHANGED nextTid

updateVisit(doctorId, id, body) ==
    Serve(updateVisitOutcome(visits, doctorId, id, body)) /\ UNCHANGED nextTid

updatePaymentStatus(id, paymentStatus) ==
    Serve(updatePaymentStatusOutcome(visits, id, paymentStatus))
    /\ UNCHANGED nextTid

startVisit(doctorId, id, t) ==
    Clock(t) /\ Serve(startVisitOutcome(visits, doctorId, id, t)) /\ UNCHANGED nextTid

completeVisit(doctorId, id, t) ==
    Clock(t) /\ Serve(completeVisitOutcome(visits, doctorId, id, t)) /\ UNCHANGED nextTid

cancelVisit(userId, id) ==
    Serve(cancelVisitOutcome(visits, userId, id)) /\ UNCHANGED nextTid

\* treatments.push gives the new subdocument a fresh _id.
FreshId(o) ==
    /\ o.write => nextTid <= MaxTreatmentIds
    /\ nextTid' = IF o.write THEN nextTid + 1 ELSE nextTid

addTreatment(doctorId, id, body) ==
    LET o == addTreatmentOutcome(visits, doctorId, id, body, nextTid)
    IN  Serve(o) /\ FreshId(o)

updateTreatment(doctorId, id, treatmentId, body) ==
    Serve(updateTreatmentOutcome(visits, doctorId, id, treatmentId, body))
    /\ UNCHANGED nextTid

deleteTreatment(doctorId, id, treatmentId) ==
    Serve(deleteTreatmentOutcome(visits, doctorId, id, treatmentId))
    /\ UNCHANGED nextTid

\* Bodies with no chiefComplaint and with the latest date, or none.
PlainVisitBodies(doctorIds) == VisitBodies(doctorIds, {NullTime, MaxTime}, {})

Create(bodies) ==
    \E p \in Patients, b \in bodies, t \in Times : createVisit(p, b, t)

Clinical ==
    \E d \in Doctors, id \in VisitIds, b \in ClinicalBodies \cup ForeignBodies :
        updateVisit(d, id, b)

Payment ==
    \E id \in VisitIds, ps \in InputPaymentStatuses : updatePaymentStatus(id, ps)

searchVisits(q) ==
    /\ \E o \in searchVisitsAnswers(visits, q) : Serve(o)
    /\ UNCHANGED nextTid

Search == \E q \in Queries : searchVisits(q)

getDashboardStats ==
    Serve(getDashboardStatsOutcome(visits)) /\ UNCHANGED nextTid

getVisitDetails(id) ==
    Serve(getVisitDetailsOutcome(visits, id)) /\ UNCHANGED nextTid

exportVisits(q) ==
    /\ \E o \in exportVisitsOutcomes(visits, q) : Serve(o)
    /\ UNCHANGED nextTid

Details == \E id \in VisitIds : getVisitDetails(id)

Export == \E q \in ExportQueries : exportVisits(q)

Lifecycle ==
    \/ \E d \in Doctors, id \in VisitIds, t \in Times : startVisit(d, id, t)
    \/ \E d \in Doctors, id \in VisitIds, t \in Times : completeVisit(d, id, t)
    \/ \E u \in Doctors \cup Patients, id \in VisitIds : cancelVisit(u, id)

Ledger(bodies) ==
    \/ \E d \in Doctors, id \in VisitIds, b \in bodies : addTreatment(d, id, b)
    \/ \E d \in Doctors, id \in VisitIds, t \in TreatmentIds, b \in bodies :
           updateTreatment(d, id, t, b)
    \/ \E d \in Doctors, id \in VisitIds, t \in TreatmentIds : deleteTreatment(d, id, t)

Next ==
    \/ Create(PlainVisitBodies(Doctors \cup Patients))
    \/ Lifecycle
    \/ Ledger(TreatmentBodies)

Spec == Init /\ [][Next]_vars

\* ------------------------------------------------------------- interleaved
\* A handler runs up to its save() and waits for the store, while other
\* requests are served.  Two requests interleave in no other way: their
\* reads do not affect each other, so of two requests that both read before
\* either saves, the one that saves last is the one that waits here.
Read(o) ==
    /\ pending = Idle
    /\ o.write
    /\ pending' = o
    /\ UNCHANGED visits

\* The store applies the waiting update, and the handler answers.
Saved ==
    /\ pending.write
    /\ Room(pending)
    /\ visits' = Stored(visits, pending)
    /\ pending' = Idle
    /\ UNCHANGED nextTid

createVisitRead(patientId, body, t) ==
    Clock(t) /\ Read(createVisitOutcome(visits, patientId, body, t))
    /\ UNCHANGED nextTid

startVisitRead(doctorId, id, t) ==
    Clock(t) /\ Read(startVisitOutcome(visits, doctorId, id, t)) /\ UNCHANGED nextTid

completeVisitRead(doctorId, id, t) ==
    Clock(t) /\ Read(completeVisitOutcome(visits, doctorId, id, t)) /\ UNCHANGED nextTid

cancelVisitRead(userId, id) ==
    Read(cancelVisitOutcome(visits, userId, id)) /\ UNCHANGED nextTid

addTreatmentRead(doctorId, id, body) ==
    LET o == addTreatmentOutcome(visits, doctorId, id, body, nextTid)
    IN  Read(o) /\ FreshId(o)

updateTreatmentRead(doctorId, id, treatmentId, body) ==
    Read(updateTreatmentOutcome(visits, doctorId, id, treatmentId, body))
    /\ UNCHANGED nextTid

deleteTreatmentRead(doctorId, id, treatmentId) ==
    Read(deleteTreatmentOutcome(visits, doctorId, id, treatmentId))
    /\ UNCHANGED nextTid

CreateRead(bodies) ==
    \E p \in Patients, b \in bodies, t \in Times : createVisitRead(p, b, t)

LifecycleRead ==
    \/ \E d \in Doctors, id \in VisitIds, t \in Times : startVisitRead(d, id, t)
    \/ \E d \in Doctors, id \in VisitIds, t \in Times : completeVisitRead(d, id, t)
    \/ \E u \in Doctors \cup Patients, id \in VisitIds : cancelVisitRead(u, id)

LedgerRead(bodies) ==
    \/ \E d \in Doctors, id \in VisitIds, b \in bodies :
           addTreatmentRead(d, id, b)
    \/ \E d \in Doctors, id \in VisitIds, t \in TreatmentIds, b \in bodies :
           updateTreatmentRead(d, id, t, b)
    \/ \E d \in Doctors, id \in VisitIds, t \in TreatmentIds :
           deleteTreatmentRead(d, id, t)

\* One visit, as createVisit stores it.  The lifecycle and ledger handlers
\* read and write the one document their request names.
InitC ==
    /\ \E p \in Patients, b \in PlainVisitBodies(Doctors) :
          /\ createVisitValidation(b, MaxTime)
          /\ visits = <<NewVisit(p, b)>>
    /\ nextTid = 1
    /\ pending = Idle

\* The bodies of the interleaved ledger requests: one price, a quantity
\* omitted or given.
InterleavedBodies ==
    { b \in TreatmentBodies :
        /\ Has(b, "quantity") => b.quantity = 2
        /\ Has(b, "unitPrice") => b.unitPrice = 2 }

NextC ==
    \/ Lifecycle
    \/ Ledger(InterleavedBodies)
    \/ LifecycleRead
    \/ LedgerRead(InterleavedBodies)
    \/ Saved

SpecC == InitC /\ [][NextC]_vars

NextV ==
    \/ Create(PlainVisitBodies(Doctors \cup Patients))
    \/ Lifecycle
    \/ CreateRead(PlainVisitBodies(Doctors))
    \/ LifecycleRead
    \/ Saved

SpecV == Init /\ [][NextV]_vars

\* One visit, as createVisit stores it, with or without a chiefComplaint; its
\* texts are updated, and its payment recorded, between lifecycle and ledger
\* requests.
InitU ==
    /\ \E p \in Patients, b \in VisitBodies(Doctors, {MaxTime}, InputTexts) :
          /\ createVisitValidation(b, MaxTime)
          /\ visits = <<NewVisit(p, trimmed(b, ClinicalPaths))>>
    /\ nextTid = 1
    /\ pending = Idle

NextU == Lifecycle \/ Ledger(InterleavedBodies) \/ Clinical \/ Payment

SpecU == InitU /\ [][NextU]_vars


\* The finance controller, on a store that starts empty: visits are created
\* with a date, billed, closed, and their payment recorded, and searched.
DatedVisitBodies == VisitBodies(Doctors, Times, {})

Billing ==
    \E d \in Doctors, id \in VisitIds :
        addTreatment(d, id, [unitPrice |-> MaxTreatmentIds])

Closing ==
    \E d \in Doctors, id \in VisitIds, t \in Times : completeVisit(d, id, t)

NextS ==
    \/ Create(DatedVisitBodies)
    \/ Billing
    \/ Closing
    \/ Payment
    \/ Search
    \/ getDashboardStats
    \/ Details
    \/ Export

SpecS == Init /\ [][NextS]_vars


\* The dashboard, on a store that starts empty: visits are created, billed
\* at one price or another, of a category or of none, completed, and their
\* payment recorded.  The prices 1 and 2 are fractions of a cent, 5 is two
\* cents.
PricedBodies ==
    { [unitPrice |-> p, category |-> c] :
        p \in {1, 5}, c \in {"consultation", "medication"} }
    \cup {[unitPrice |-> 2]}

Pricing ==
    \E d \in Doctors, id \in VisitIds, b \in PricedBodies : addTreatment(d, id, b)

NextD ==
    \/ Create(PlainVisitBodies(Doctors))
    \/ Pricing
    \/ Closing
    \/ Payment
    \/ getDashboardStats

SpecD == Init /\ [][NextD]_vars

\* ============================================================= claims
Terminal == {"completed", "cancelled"}

Active == {"scheduled", "in_progress"}

\* The sum of totalPrice over a treatment list, by position.
RECURSIVE SumTotalPrice(_, _)
SumTotalPrice(treatments, n) ==
    IF n = 0 THEN 0 ELSE treatments[n].totalPrice + SumTotalPrice(treatments, n - 1)

StoredTreatments == {<<i, k>> \in VisitIds \X TreatmentIds :
                        i \in DOMAIN visits /\ k \in DOMAIN visits[i].treatments}

\* C1: with every request run to completion before the next starts, each
\* stored visit's totalAmount is the sum of totalPrice over its stored
\* treatments (0 when it has none).
C1_TotalAmountIsSum ==
    \A i \in DOMAIN visits :
        visits[i].totalAmount =
            SumTotalPrice(visits[i].treatments, Len(visits[i].treatments))

\* Two treatments were added and one of them deleted; the one left has a
\* price, and another visit has none.
C1_Witness ==
    /\ nextTid = 3
    /\ Cardinality(StoredTreatments) = 1
    /\ \E i \in DOMAIN visits : visits[i].totalAmount > 0
    /\ \E i \in DOMAIN visits : visits[i].treatments = <<>> /\ visits[i].totalAmount = 0

\* C2: every stored treatment has totalPrice = unitPrice * quantity, after
\* addTreatment (quantity 1 when the body omits it) and after updateTreatment
\* whichever of the two the body supplies.
C2_TotalPriceIsProduct ==
    /\ \A i \in DOMAIN visits : \A k \in DOMAIN visits[i].treatments :
          LET t == visits[i].treatments[k]
          IN  t.totalPrice = t.unitPrice * t.quantity
    /\ \A b \in TreatmentBodies :
          addTreatmentValidation(b) /\ ~Has(b, "quantity")
              => addTreatmentItem(b, nextTid).quantity = 1

\* A treatment added without a quantity and one whose quantity is 2, both
\* with a price.
C2_Witness ==
    \E i \in DOMAIN visits :
        /\ Len(visits[i].treatments) = 2
        /\ visits[i].treatments[1].quantity = 2
        /\ visits[i].treatments[1].totalPrice = 4
        /\ visits[i].treatments[2].quantity = 1
        /\ visits[i].treatments[2].totalPrice = 2

\* The status changes of the transition table of the testable properties.
TableTransitions ==
    { <<"scheduled", "in_progress">>, <<"scheduled", "cancelled">>,
      <<"in_progress", "completed">>, <<"in_progress", "cancelled">> }

StatusChangesWithin(transitions) ==
    \A i \in DOMAIN visits :
        visits'[i].status # visits[i].status
            => <<visits[i].status, visits'[i].status>> \in transitions

\* A lifecycle request of a visit's own doctor that would make a change of
\* status outside `transitions' is answered with an invalid-transition error
\* and stores nothing.
OtherTransitionsRefused(transitions) ==
    \A d \in Doctors, i \in DOMAIN visits, t \in Times :
        findOne(visits, i, d) =>
            LET from == visits[i].status
                Refused(o) == IsInvalidTransition(Answered(o)) /\ Stored(visits, o) = visits
            IN  /\ <<from, "in_progress">> \notin transitions
                    => Refused(startVisitOutcome(visits, d, i, t))
                /\ <<from, "completed">> \notin transitions
                    => Refused(completeVisitOutcome(visits, d, i, t))
                /\ <<from, "cancelled">> \notin transitions
                    => Refused(cancelVisitOutcome(visits, d, i))

\* C3 as claimed: start, complete and cancel change the status only by
\* scheduled->in_progress, scheduled->cancelled, in_progress->completed and
\* in_progress->cancelled, and every other requested transition, complete on
\* a scheduled visit included, fails with an invalid-transition error and
\* leaves the status unchanged.
C3_TableOnly ==
    /\ [][StatusChangesWithin(TableTransitions)]_vars
    /\ []OtherTransitionsRefused(TableTransitions)

\* C3 as amended: the same with scheduled->completed among the changes:
\* complete on a scheduled visit succeeds.
C3_TableAndCompleteScheduled ==
    /\ [][StatusChangesWithin(TableTransitions \cup {<<"scheduled", "completed">>})]_vars
    /\ []OtherTransitionsRefused(TableTransitions \cup {<<"scheduled", "completed">>})

\* A visit completed without having been started.
C3_Witness ==
    \E i \in DOMAIN visits :
        /\ visits[i].status = "completed"
        /\ visits[i].startTime = NullTime

\* C4: complete on a scheduled or in_progress visit succeeds, with status
\* completed and endTime the current time; on a completed or cancelled visit
\* it fails with an invalid-transition error and changes neither.
C4_Complete ==
    \A d \in Doctors, i \in DOMAIN visits, t \in Times :
        findOne(visits, i, d) /\ Clock(t) =>
            LET o == completeVisitOutcome(visits, d, i, t)
                after == Stored(visits, o)[i]
            IN  IF visits[i].status \in {"scheduled", "in_progress"}
                THEN /\ Answered(o).status = "OK"
                     /\ after.status = "completed"
                     /\ after.endTime = t
                ELSE /\ IsInvalidTransition(Answered(o))
                     /\ after.status = visits[i].status
                     /\ after.endTime = visits[i].endTime

\* A visit completed after it was started, at a later time, and a visit
\* completed from scheduled.
C4_Witness ==
    /\ \E i \in DOMAIN visits :
          /\ visits[i].status = "completed"
          /\ visits[i].startTime # NullTime
          /\ visits[i].endTime > visits[i].startTime
    /\ \E i \in DOMAIN visits :
          /\ visits[i].status = "completed"
          /\ visits[i].startTime = NullTime
          /\ visits[i].endTime # NullTime

\* C5: start succeeds only on a scheduled visit, with status in_progress and
\* startTime the current time; on any other status it fails with an
\* invalid-transition error and leaves status and startTime unchanged.
C5_Start ==
    \A d \in Doctors, i \in DOMAIN visits, t \in Times :
        findOne(visits, i, d) /\ Clock(t) =>
            LET o == startVisitOutcome(visits, d, i, t)
                after == Stored(visits, o)[i]
            IN  IF visits[i].status = "scheduled"
                THEN /\ Answered(o).status = "OK"
                     /\ after.status = "in_progress"
                     /\ after.startTime = t
                ELSE /\ IsInvalidTransition(Answered(o))
                     /\ after.status = visits[i].status
                     /\ after.startTime = visits[i].startTime

\* A started visit beside a cancelled one.
C5_Witness ==
    /\ \E i \in DOMAIN visits :
          visits[i].status = "in_progress" /\ visits[i].startTime = MaxTime
    /\ \E i \in DOMAIN visits : visits[i].status = "cancelled"

\* C6: once the stored status of a visit is completed or cancelled it never
\* changes again, under any interleaving of start, complete and cancel.
C6_TerminalStatusStays ==
    [][\A i \in DOMAIN visits :
          visits[i].status \in Terminal => visits'[i].status = visits[i].status]_vars

ActiveVisitsOf(doctorId) ==
    {i \in DOMAIN visits : visits[i].doctor = doctorId /\ visits[i].status \in Active}

\* C7: in every reachable state, interleaved creates included, each
\* practitioner has at most one visit in scheduled or in_progress.
C7_OneActiveVisit ==
    \A d \in Doctors : Cardinality(ActiveVisitsOf(d)) <= 1

\* C8: create for a practitioner with a scheduled or in_progress visit fails
\* with a conflict error and inserts nothing; for a practitioner with none it
\* is not rejected for conflict.
C8_CreateConflict ==
    \A p \in Patients, b \in PlainVisitBodies(Doctors), t \in Times :
        createVisitValidation(b, t) =>
            LET o == createVisitOutcome(visits, p, b, t)
            IN  IF ActiveVisitsOf(b.doctorId) # {}
                THEN IsConflict(Answered(o)) /\ Stored(visits, o) = visits
                ELSE /\ ~IsConflict(Answered(o))
                     /\ Stored(visits, o) = Append(visits, NewVisit(p, b))

\* A second visit of a practitioner whose first is in a terminal status, and
\* so a create that was not rejected; the second is in progress, and so a
\* create for that practitioner is rejected.
C8_Witness ==
    /\ Len(visits) = 2
    /\ visits[1].doctor = visits[2].doctor
    /\ visits[1].status \in Terminal
    /\ visits[2].status = "in_progress"

\* C9: when two ledger mutations of one visit interleave, no update is lost:
\* once both are stored the visit holds both and its totalAmount is the sum
\* of totalPrice of its treatments.
C9_NoLostUpdate ==
    pending = Idle => C1_TotalAmountIsSum

\* C10: addTreatment, updateTreatment and deleteTreatment each fail with an
\* invalid-transition error on a completed or cancelled visit, and leave its
\* treatments and totalAmount unchanged.
C10_LedgerRefusedWhenTerminal ==
    \A d \in Doctors, i \in DOMAIN visits :
        findOne(visits, i, d) /\ visits[i].status \in Terminal =>
            LET Refused(o) == IsInvalidTransition(Answered(o)) /\ Stored(visits, o) = visits
            IN  /\ \A b \in TreatmentBodies : addTreatmentValidation(b)
                      => Refused(addTreatmentOutcome(visits, d, i, b, nextTid))
                /\ \A b \in TreatmentBodies, k \in TreatmentIds :
                      updateTreatmentValidation(b)
                      => Refused(updateTreatmentOutcome(visits, d, i, k, b))
                /\ \A k \in TreatmentIds :
                      Refused(deleteTreatmentOutcome(visits, d, i, k))

\* A completed visit and a cancelled one, each with a treatment.
C10_Witness ==
    /\ \E i \in DOMAIN visits :
          visits[i].status = "completed" /\ visits[i].treatments # <<>>
    /\ \E i \in DOMAIN visits :
          visits[i].status = "cancelled" /\ visits[i].treatments # <<>>

\* An answer that reports an error.
IsError(r) == r.status \notin {"OK", "CREATED"}

\* The outcome o of a request on the current store: answered with an error
\* it stores nothing; and what it stores holds a changed status together
\* with the time of the change (startTime of a start, endTime of a
\* complete), and a changed treatment list together with its total.
AppliesWhole(o, startTime, endTime) ==
    LET after == Stored(visits, o)
    IN  /\ IsError(Answered(o)) => after = visits
        /\ \A i \in DOMAIN visits :
              /\ after[i].status # visits[i].status /\ after[i].status = "in_progress"
                    => after[i].startTime = startTime
              /\ after[i].status # visits[i].status /\ after[i].status = "completed"
                    => after[i].endTime = endTime
              /\ after[i].treatments # visits[i].treatments
                    => after[i].totalAmount =
                         SumTotalPrice(after[i].treatments, Len(after[i].treatments))

\* C11: every request answered with an error (validation failure, not
\* found, conflict, illegal status) leaves every stored visit unchanged, and
\* every successful ledger or status mutation stores all of its changes
\* together: no stored visit has a changed status without its startTime or
\* endTime, or changed treatments without the recomputed totalAmount.
C11_NoPartialWrite ==
    /\ \A i \in DOMAIN visits :
          /\ visits[i].status = "in_progress" => visits[i].startTime # NullTime
          /\ visits[i].status = "completed" => visits[i].endTime # NullTime
    /\ C1_TotalAmountIsSum
    /\ \A p \in Patients, b \in PlainVisitBodies(Doctors \cup Patients), t \in Times :
          AppliesWhole(createVisitOutcome(visits, p, b, t), NullTime, NullTime)
    /\ \A u \in Doctors \cup Patients, i \in VisitIds :
          /\ AppliesWhole(cancelVisitOutcome(visits, u, i), NullTime, NullTime)
          /\ \A t \in Times :
                /\ AppliesWhole(startVisitOutcome(visits, u, i, t), t, NullTime)
                /\ AppliesWhole(completeVisitOutcome(visits, u, i, t), NullTime, t)
          /\ \A b \in ClinicalBodies :
                AppliesWhole(updateVisitOutcome(visits, u, i, b), NullTime, NullTime)
          /\ \A b \in TreatmentBodies :
                AppliesWhole(addTreatmentOutcome(visits, u, i, b, nextTid),
                             NullTime, NullTime)
          /\ \A b \in TreatmentBodies, k \in TreatmentIds :
                AppliesWhole(updateTreatmentOutcome(visits, u, i, k, b),
                             NullTime, NullTime)
          /\ \A k \in TreatmentIds :
                AppliesWhole(deleteTreatmentOutcome(visits, u, i, k),
                             NullTime, NullTime)

\* A visit started and billed, beside a visit completed with a treatment: a
\* start, a complete and two ledger mutations were stored (and any further
\* start or add on the completed visit is answered with an error).
C11_Witness ==
    /\ \E i \in DOMAIN visits :
          /\ visits[i].status = "in_progress"
          /\ visits[i].treatments # <<>> /\ visits[i].totalAmount > 0
    /\ \E i \in DOMAIN visits :
          /\ visits[i].status = "completed"
          /\ visits[i].treatments # <<>> /\ visits[i].totalAmount > 0

\* C12: a successful create stores (and returns) one new visit with status
\* scheduled, totalAmount 0, paymentStatus pending, no treatments, startTime
\* and endTime unset, the requesting patient as patient and the requested
\* doctor as doctor; the visits already stored are as they were.
C12_CreateStoresNewVisit ==
    \A p \in Patients, t \in Times,
       b \in VisitBodies(Doctors \cup Patients, {NullTime} \cup Times, InputTexts) :
        LET o == createVisitOutcome(visits, p, b, t)
            after == Stored(visits, o)
        IN  Answered(o).status = "CREATED" =>
              /\ Len(after) = Len(visits) + 1
              /\ SubSeq(after, 1, Len(visits)) = visits
              /\ LET visit == after[Len(after)]
                 IN  /\ visit.status = "scheduled"
                     /\ visit.totalAmount = 0
                     /\ visit.paymentStatus = "pending"
                     /\ visit.treatments = <<>>
                     /\ visit.startTime = NullTime
                     /\ visit.endTime = NullTime
                     /\ visit.patient = p
                     /\ visit.doctor = b.doctorId

\* A visit as create stored it, after an earlier visit that has a treatment
\* and was closed.
C12_Witness ==
    /\ Len(visits) = 2
    /\ visits[1].status \in Terminal /\ visits[1].treatments # <<>>
    /\ \E p \in Patients, b \in PlainVisitBodies(Doctors) : visits[2] = NewVisit(p, b)

\* The paths of a visit that are no clinical text.
OtherPaths ==
    {"patient", "doctor", "status", "scheduledDate", "startTime", "endTime",
     "treatments", "totalAmount", "paymentStatus"}

\* C13: updateVisit on a visit that is neither completed nor cancelled
\* succeeds; each of diagnosis, notes and chiefComplaint that the body
\* carries is overwritten with the (trimmed) text of the body, an empty text
\* included; the texts the body omits, and status, treatments, totalAmount,
\* paymentStatus, startTime and endTime, are unchanged.
C13_UpdateOverwritesSupplied ==
    \A d \in Doctors, i \in DOMAIN visits, b \in ClinicalBodies :
        findOne(visits, i, d) /\ visits[i].status \notin Terminal =>
            LET o == updateVisitOutcome(visits, d, i, b)
                after == Stored(visits, o)
            IN  /\ Answered(o).status = "OK"
                /\ DOMAIN after = DOMAIN visits
                /\ \A j \in DOMAIN visits : j # i => after[j] = visits[j]
                /\ \A f \in ClinicalPaths :
                      after[i][f] = IF Has(b, f) THEN trim(b[f]) ELSE visits[i][f]
                /\ \A f \in OtherPaths : after[i][f] = visits[i][f]

\* A started visit with a treatment, whose diagnosis was written, whose
\* notes were written and then cleared, and whose chiefComplaint was never
\* given.
C13_Witness ==
    \E i \in DOMAIN visits :
        /\ visits[i].status = "in_progress"
        /\ visits[i].treatments # <<>>
        /\ visits[i].diagnosis = <<"f">>
        /\ visits[i].notes = <<>>
        /\ visits[i].chiefComplaint = Undefined

\* C14: updateVisit on a completed or cancelled visit fails with an
\* invalid-transition error and leaves diagnosis, notes and chiefComplaint
\* (and the rest of the store) unchanged.
C14_UpdateRefusedWhenTerminal ==
    \A d \in Doctors, i \in DOMAIN visits, b \in ClinicalBodies :
        findOne(visits, i, d) /\ visits[i].status \in Terminal =>
            LET o == updateVisitOutcome(visits, d, i, b)
            IN  /\ IsInvalidTransition(Answered(o))
                /\ Stored(visits, o) = visits

\* A cancelled visit whose diagnosis was written before it was cancelled.
C14_Witness ==
    \E i \in DOMAIN visits :
        /\ visits[i].status = "cancelled"
        /\ visits[i].diagnosis = <<"f">>
        /\ visits[i].notes = Undefined

TreatmentNotFound == Response("NOT_FOUND", "Treatment not found")

\* The ids of the treatments of visit i.
TreatmentIdsOf(i) == {visits[i].treatments[k].id : k \in DOMAIN visits[i].treatments}

\* C15 as claimed: updateTreatment (with a body that passes validation) with
\* a treatmentId that is not the id of a treatment of the addressed visit
\* fails with a not-found error and leaves the store unchanged, whatever the
\* status of the visit.
C15_NotFoundWhateverStatus ==
    \A d \in Doctors, i \in DOMAIN visits, k \in TreatmentIds, b \in TreatmentBodies :
        findOne(visits, i, d) /\ updateTreatmentValidation(b)
          /\ k \notin TreatmentIdsOf(i) =>
            LET o == updateTreatmentOutcome(visits, d, i, k, b)
            IN  Answered(o) = TreatmentNotFound /\ Stored(visits, o) = visits

\* C15 as amended: on a visit that is neither completed nor cancelled the
\* request fails with a not-found error; on a completed or cancelled visit
\* it fails with an invalid-transition error; either way the store, and so
\* the visit's treatments and totalAmount, is unchanged.
C15_NotFoundWhenNotTerminal ==
    \A d \in Doctors, i \in DOMAIN visits, k \in TreatmentIds, b \in TreatmentBodies :
        findOne(visits, i, d) /\ updateTreatmentValidation(b)
          /\ k \notin TreatmentIdsOf(i) =>
            LET o == updateTreatmentOutcome(visits, d, i, k, b)
            IN  /\ Stored(visits, o) = visits
                /\ IF visits[i].status \in Terminal
                   THEN IsInvalidTransition(Answered(o))
                   ELSE Answered(o) = TreatmentNotFound

\* A visit in progress and a closed visit, each with one treatment: the id
\* of either treatment is not the id of a treatment of the other visit.
C15_Witness ==
    /\ Len(visits) = 2
    /\ visits[1].status \in Terminal /\ Len(visits[1].treatments) = 1
    /\ visits[2].status = "in_progress" /\ Len(visits[2].treatments) = 1

\* C16: deleteTreatment on a visit that is neither completed nor cancelled
\* succeeds; with an id the visit does not hold it leaves the treatments and
\* totalAmount (and the rest of the store) unchanged; with an id it holds it
\* removes that one entry and no other, and the total is the sum of the
\* rest; the same request once more changes nothing.
C16_DeleteIsIdempotent ==
    \A d \in Doctors, i \in DOMAIN visits, k \in TreatmentIds :
        findOne(visits, i, d) /\ visits[i].status \notin Terminal =>
            LET o == deleteTreatmentOutcome(visits, d, i, k)
                once == Stored(visits, o)
                again == deleteTreatmentOutcome(once, d, i, k)
                Other(t) == t.id # k
                rest == SelectSeq(visits[i].treatments, Other)
            IN  /\ Answered(o).status = "OK"
                /\ k \notin TreatmentIdsOf(i) => once = visits
                /\ k \in TreatmentIdsOf(i) => Len(rest) = Len(visits[i].treatments) - 1
                /\ once = [visits EXCEPT ![i].treatments = rest,
                                         ![i].totalAmount = SumTotalPrice(rest, Len(rest))]
                /\ Answered(again).status = "OK"
                /\ Stored(once, again) = once

\* Two treatments were added to a visit in progress and the first of them
\* was deleted.
C16_Witness ==
    /\ nextTid = 3
    /\ \E i \in DOMAIN visits :
          /\ visits[i].status = "in_progress"
          /\ Len(visits[i].treatments) = 1
          /\ visits[i].treatments[1].id = 2
          /\ \A j \in DOMAIN visits : j # i => visits[j].treatments = <<>>

\* C17: every stored treatment has quantity >= 1, unitPrice >= 0 and
\* totalPrice >= 0, and every visit totalAmount >= 0; addTreatment and
\* updateTreatment answer a body with a negative unitPrice or a quantity
\* below 1 with a validation error and store nothing.
C17_AmountsNotNegative ==
    /\ \A i \in DOMAIN visits :
          /\ visits[i].totalAmount >= 0
          /\ \A k \in DOMAIN visits[i].treatments :
                LET t == visits[i].treatments[k]
                IN  t.quantity >= 1 /\ t.unitPrice >= 0 /\ t.totalPrice >= 0
    /\ \A d \in Doctors, i \in VisitIds, b \in TreatmentBodies :
          (Has(b, "unitPrice") /\ b.unitPrice < 0)
            \/ (Has(b, "quantity") /\ b.quantity < 1) =>
              LET Rejected(o) == Answered(o) = ValidationFailed /\ Stored(visits, o) = visits
              IN  /\ Rejected(addTreatmentOutcome(visits, d, i, b, nextTid))
                  /\ \A k \in TreatmentIds :
                        Rejected(updateTreatmentOutcome(visits, d, i, k, b))

\* A treatment stored with the least quantity and the least price, beside
\* one with a price, in a visit a bad body could be sent to.
C17_Witness ==
    \E i \in DOMAIN visits :
        /\ visits[i].status \notin Terminal
        /\ Len(visits[i].treatments) = 2
        /\ visits[i].treatments[1].quantity = 1
        /\ visits[i].treatments[1].unitPrice = 0
        /\ visits[i].treatments[2].totalPrice > 0

\* The answers a client can get that asks for the pages 1..pages of query
\* q one after the other, the store unchanged: one answer for each page.
PageAnswers(q, pages) ==
    LET AnswersOf(p) == searchVisitsOutcomes(visits, [q EXCEPT !.page = p])
    IN  { f \in [1..pages -> UNION {AnswersOf(p) : p \in 1..pages}] :
            \A p \in 1..pages : f[p] \in AnswersOf(p) }

RECURSIVE ConcatVisits(_, _)
ConcatVisits(f, n) ==
    IF n = 0 THEN <<>> ELSE ConcatVisits(f, n - 1) \o f[n].visits

\* The ids `order' are in the order of query q's sort key and direction.
InSortOrder(order, q) ==
    \A a, b \in DOMAIN order :
        a < b => IF q.sortOrder = "asc"
                 THEN visits[order[a]][q.sortBy] <= visits[order[b]][q.sortBy]
                 ELSE visits[order[a]][q.sortBy] >= visits[order[b]][q.sortBy]

\* C18: for every filter set and every limit >= 1, searchVisits answers
\* pages = ceil(total / limit), and the visits of the pages 1..pages, one
\* after the other, are the visits that match the filters, each exactly
\* once, in the requested sort order, equal sort keys or not.
C18_PagesCoverOnce ==
    \A q \in Queries :
        q.page = 1 =>
            LET ids == named(visits, q)
                pages == CHOOSE n \in 0..Cardinality(ids) :
                             /\ n * q.limit >= Cardinality(ids)
                             /\ n > 0 => (n - 1) * q.limit < Cardinality(ids)
            IN  \A f \in PageAnswers(q, pages) :
                    LET all == ConcatVisits(f, pages)
                    IN  /\ \A p \in 1..pages : f[p].pages = pages
                        /\ Len(all) = Cardinality(ids)
                        /\ {all[k] : k \in DOMAIN all} = ids
                        /\ InSortOrder(all, q)

\* C19: in an answer of searchVisits, visits with equal values of the sort
\* key are in ascending order of id, for either sort direction.
C19_TiesByAscendingId ==
    \A q \in Queries : \A r \in searchVisitsOutcomes(visits, q) :
        \A a, b \in DOMAIN r.visits :
            a < b /\ visits[r.visits[a]][q.sortBy] = visits[r.visits[b]][q.sortBy]
                => r.visits[a] < r.visits[b]

\* C20: the statistics of an answer of searchVisits are those of the visits
\* counted by total, the visits passing every supplied filter, the name
\* filters included: pendingPayments + partialPayments + paidVisits = total,
\* totalRevenue is the sum of their totalAmount, and completedVisits the
\* number of them that are completed.
C20_StatisticsOfCounted ==
    \A q \in Queries : \A r \in searchVisitsOutcomes(visits, q) :
        LET ids == named(visits, q)
        IN  /\ r.total = Cardinality(ids)
            /\ r.statistics.pendingPayments + r.statistics.partialPayments
                  + r.statistics.paidVisits = r.total
            /\ r.statistics.totalRevenue = toFixed(sumTotalAmount(visits, ids))
            /\ r.statistics.completedVisits =
                  Cardinality({i \in ids : visits[i].status = "completed"})

\* Visit i satisfies every filter that query q supplies.
SatisfiesFilters(i, q) ==
    /\ q.visitId # 0 => i = q.visitId
    /\ q.status # "" => visits[i].status = q.status
    /\ q.paymentStatus # "" => visits[i].paymentStatus = q.paymentStatus
    /\ q.startDate # NullTime => visits[i].scheduledDate >= q.startDate
    /\ q.endDate # NullTime => visits[i].scheduledDate <= q.endDate
    /\ q.patientName # <<>> => regexMatches(UserName[visits[i].patient], q.patientName)
    /\ q.doctorName # <<>> => regexMatches(UserName[visits[i].doctor], q.doctorName)

\* C21: searchVisits answers total = the number of visits that satisfy
\* every supplied filter (visit id, status, paymentStatus, the dates, the
\* two names), whatever page, limit, sortBy and sortOrder; the page holds
\* min(limit, max(0, total - (page - 1) * limit)) visits, each of which
\* satisfies every supplied filter.
C21_TotalCountsMatches ==
    \A q \in Queries : \A r \in searchVisitsOutcomes(visits, q) :
        LET total == Cardinality({i \in DOMAIN visits : SatisfiesFilters(i, q)})
            left == total - (q.page - 1) * q.limit
        IN  /\ r.total = total
            /\ Len(r.visits) = IF left <= 0 THEN 0
                                ELSE IF left < q.limit THEN left ELSE q.limit
            /\ \A k \in DOMAIN r.visits : SatisfiesFilters(r.visits[k], q)

\* The number that the two-decimal text `fixed' stands for, in hundredths.
Hundredths(fixed) == 100 * fixed.units + 10 * fixed.decimals[1] + fixed.decimals[2]

\* The two-decimal text `fixed' is the amount to the nearest cent: they
\* differ by at most half a cent (an amount n is 4n/10 cents).
IsToCents(fixed, amount) ==
    /\ 10 * Hundredths(fixed) - 4 * amount <= 5
    /\ 4 * amount - 10 * Hundredths(fixed) <= 5

\* C22: the overall totals of the dashboard count completed visits only:
\* totalRevenue is the sum of totalAmount over the completed visits,
\* paidAmount the sum over those that are paid, pendingPayments the sum over
\* those that are pending; collectionRate is paidAmount / totalRevenue * 100
\* to the nearest hundredth with "%" after it, and "0%" when totalRevenue
\* is 0.
C22_DashboardCountsCompleted ==
    LET overall == Answered(getDashboardStatsOutcome(visits)).overall
        Sum(ps) == sumTotalAmount(visits,
                      {i \in DOMAIN visits : /\ visits[i].status = "completed"
                                             /\ visits[i].paymentStatus \in ps})
        revenue == Sum({"pending", "partial", "paid"})
        rate == overall.collectionRate
    IN  /\ IsToCents(overall.totalRevenue, revenue)
        /\ IsToCents(overall.paidAmount, Sum({"paid"}))
        /\ IsToCents(overall.pendingPayments, Sum({"pending"}))
        /\ rate.suffix = "%"
        /\ revenue = 0 => rate.number = [units |-> 0, decimals |-> <<>>]
        /\ revenue > 0 =>
              LET exact == 10000 * Sum({"paid"})
                  given == Hundredths(rate.number) * revenue
              IN  /\ 2 * (given - exact) <= revenue
                  /\ 2 * (exact - given) <= revenue

\* Two completed visits, one of amount 2 that is paid and one of amount 1
\* that is pending: the rate is 66.67%.
C22_Witness ==
    /\ \E i, j \in DOMAIN visits :
          /\ visits[i].status = "completed" /\ visits[i].paymentStatus = "paid"
          /\ visits[i].totalAmount = 2
          /\ visits[j].status = "completed" /\ visits[j].paymentStatus = "pending"
          /\ visits[j].totalAmount = 1
    /\ Answered(getDashboardStatsOutcome(visits)).overall.collectionRate.number
          = [units |-> 66, decimals |-> <<6, 7>>]

\* The outcomes that the four queries of the finance controller can have
\* on the current store, over all their inputs.
FinanceQueryOutcomes ==
    UNION {searchVisitsAnswers(visits, q) : q \in Queries}
    \cup {getDashboardStatsOutcome(visits)}
    \cup {getVisitDetailsOutcome(visits, id) : id \in VisitIds}
    \cup UNION {exportVisitsOutcomes(visits, q) : q \in ExportQueries}

\* C23: searchVisits, getDashboardStats, getVisitDetails and exportVisits
\* leave every stored visit as it is, for every input, whether they answer
\* with a result or with an error.
C23_QueriesStoreNothing ==
    \A o \in FinanceQueryOutcomes : Stored(visits, o) = visits

\* A store of one visit on which a search, the details and an export each
\* answer with a visit, while the details of another id are not found.
C23_Witness ==
    /\ Len(visits) = 1
    /\ \E q \in Queries : \E o \in searchVisitsAnswers(visits, q) :
          Len(o.res.visits) > 0
    /\ \E id, other \in VisitIds :
          /\ getVisitDetailsOutcome(visits, id).res.status = "OK"
          /\ getVisitDetailsOutcome(visits, other).res = VisitNotFound
    /\ \E q \in ExportQueries : \E o \in exportVisitsOutcomes(visits, q) :
          o.res.status = "OK" /\ o.res.count > 0
    /\ getDashboardStatsOutcome(visits).res.overall.totalVisits > 0

InputDoctorIds == DOMAIN User \cup {"d0"}

\* C25: createVisit is rejected and inserts nothing when the doctor it names
\* does not exist, is not active or has not the doctor role, and when its
\* scheduledDate is earlier than the time of the request; so the doctor of
\* every stored visit is an active user of the doctor role.
C25_CreateRejected ==
    /\ \A b \in VisitBodies(InputDoctorIds, Times, {}), t \in Times :
          LET o == createVisitOutcome(visits, "p1", b, t)
              unknown == b.doctorId \notin DOMAIN User
              unfit == ~unknown /\ (~User[b.doctorId].isActive
                                      \/ User[b.doctorId].role # "doctor")
              past == b.scheduledDate < t
          IN  /\ (unknown \/ unfit \/ past) =>
                    /\ IsError(Answered(o))
                    /\ Stored(visits, o) = visits
              /\ past => Answered(o) = ValidationFailed
              /\ ((unknown \/ unfit) /\ ~past) => Answered(o).status = "NOT_FOUND"
    /\ \A i \in DOMAIN visits :
          /\ visits[i].doctor \in DOMAIN User
          /\ User[visits[i].doctor].role = "doctor"
          /\ User[visits[i].doctor].isActive

\* A stored visit, at a time when a visit dated earlier is refused and one
\* dated now, for the other doctor, is accepted.
C25_Witness ==
    /\ Len(visits) = 1
    /\ \E b \in VisitBodies(Doctors, Times, {}) :
          /\ createVisitOutcome(visits, "p1", b, MaxTime) = Answer(ValidationFailed)
          /\ createVisitOutcome(visits, "p1",
                                 [b EXCEPT !.scheduledDate = MaxTime], MaxTime).write
          /\ createVisitOutcome(visits, "p1",
                                 [b EXCEPT !.scheduledDate = MaxTime, !.doctorId = "d3"],
                                 MaxTime).res.status = "NOT_FOUND"

\* C26: the patient and the doctor of a visit never change after its
\* creation, whatever request is served (start, complete, cancel, update of
\* the clinical texts, add, update or delete of a treatment, update of the
\* payment status), and no request removes a visit from the store.
C26_RefsNeverChange ==
    [][ /\ Len(visits') >= Len(visits)
        /\ \A i \in DOMAIN visits :
              /\ visits'[i].patient = visits[i].patient
              /\ visits'[i].doctor = visits[i].doctor ]_vars

\* A visit that was started, billed, described, paid and completed, and
\* whose doctor then asks for an update naming another doctor.
C26_Witness ==
    \E i \in DOMAIN visits, b \in ForeignBodies :
        /\ visits[i].status = "completed" /\ visits[i].startTime # NullTime
        /\ visits[i].treatments # <<>>
        /\ visits[i].notes = <<"f">>
        /\ visits[i].paymentStatus = "paid"
        /\ b.doctor # visits[i].doctor
        /\ updateVisitOutcome(visits, visits[i].doctor, i, b).res.status = "BAD_REQUEST"

\* The outcomes that the lifecycle and ledger requests can have on the
\* current store, over all their inputs.
LifecycleAndLedgerOutcomes ==
    UNION { {cancelVisitOutcome(visits, u, i)}
            \cup {startVisitOutcome(visits, u, i, t) : t \in Times}
            \cup {completeVisitOutcome(visits, u, i, t) : t \in Times}
            \cup {updateVisitOutcome(visits, u, i, b) : b \in ClinicalBodies}
            \cup {addTreatmentOutcome(visits, u, i, b, nextTid) : b \in TreatmentBodies}
            \cup {updateTreatmentOutcome(visits, u, i, k, b) :
                      k \in TreatmentIds, b \in TreatmentBodies}
            \cup {deleteTreatmentOutcome(visits, u, i, k) : k \in TreatmentIds} :
            u \in Doctors \cup Patients, i \in VisitIds }

\* C27: updatePaymentStatus with pending, partial or paid is accepted for a
\* visit in any status, the completed and the cancelled included, and
\* changes paymentStatus alone: status, startTime, endTime, treatments,
\* totalAmount and the rest are as they were.  With any other value it is
\* rejected and the visit is unchanged.  No lifecycle or ledger request
\* changes a paymentStatus.
C27_PaymentStatusAlone ==
    /\ \A i \in DOMAIN visits, ps \in InputPaymentStatuses :
          LET o == updatePaymentStatusOutcome(visits, i, ps)
          IN  IF ps \in {"pending", "partial", "paid"}
              THEN /\ Answered(o).status = "OK"
                   /\ Stored(visits, o) = [visits EXCEPT ![i].paymentStatus = ps]
              ELSE /\ Answered(o) = ValidationFailed
                   /\ Stored(visits, o) = visits
    /\ \A o \in LifecycleAndLedgerOutcomes :
          LET after == Stored(visits, o)
          IN  \A i \in DOMAIN visits : after[i].paymentStatus = visits[i].paymentStatus

\* A cancelled visit that was started and billed, and whose payment was
\* recorded as partial; it can still be recorded as paid.
C27_Witness ==
    \E i \in DOMAIN visits :
        /\ visits[i].status = "cancelled" /\ visits[i].startTime # NullTime
        /\ visits[i].treatments # <<>>
        /\ visits[i].paymentStatus = "partial"
        /\ Stored(visits, updatePaymentStatusOutcome(visits, i, "paid"))[i].paymentStatus
              = "paid"

\* C30: cancelVisit, asked by the patient or the doctor of a visit that is
\* scheduled or in progress, sets its status to cancelled and changes
\* nothing else: startTime, endTime (which stays unset), treatments,
\* totalAmount, paymentStatus and the texts keep their values.  On a
\* completed or cancelled visit it fails and changes nothing.
C30_CancelSetsStatusOnly ==
    \A u \in Doctors \cup Patients, i \in DOMAIN visits :
        u \in {visits[i].patient, visits[i].doctor} =>
            LET o == cancelVisitOutcome(visits, u, i)
                after == Stored(visits, o)
            IN  IF visits[i].status \in {"scheduled", "in_progress"}
                THEN /\ Answered(o).status = "OK"
                     /\ after = [visits EXCEPT ![i].status = "cancelled"]
                     /\ after[i].endTime = NullTime
                ELSE /\ IsInvalidTransition(Answered(o))
                     /\ after = visits

\* A cancelled visit that was started, billed, described and partly paid,
\* and has no endTime: the state after a cancel, in which a further cancel
\* is refused.
C30_Witness ==
    \E i \in DOMAIN visits :
        /\ visits[i].status = "cancelled"
        /\ visits[i].startTime # NullTime /\ visits[i].endTime = NullTime
        /\ visits[i].treatments # <<>> /\ visits[i].totalAmount > 0
        /\ visits[i].diagnosis = <<"f">>
        /\ visits[i].paymentStatus = "partial"
        /\ cancelVisitOutcome(visits, visits[i].patient, i).res.status = "BAD_REQUEST"

\* C28: once the stored status of a visit is completed or cancelled, its
\* treatments, totalAmount, diagnosis, notes and chiefComplaint never change
\* again, also when a ledger request that read the visit before it became
\* terminal saves afterwards.
C28_TerminalVisitIsFrozen ==
    [][\A i \in DOMAIN visits :
          visits[i].status \in Terminal =>
              \A f \in {"treatments", "totalAmount"} \cup ClinicalPaths :
                  visits'[i][f] = visits[i][f]]_vars

\* C29: when every request runs to completion before the next starts, each
\* doctor has at most one visit that is scheduled or in progress after any
\* sequence of create, start, complete and cancel requests; and of two
\* creates for a doctor with no such visit, one served after the other, the
\* first succeeds and the second fails with a conflict.
C29_OneActiveWhenSerial ==
    /\ \A d \in Doctors :
          \A i, j \in ActiveVisitsOf(d) : i = j
    /\ \A p \in Patients, b \in PlainVisitBodies(Doctors), t \in Times, u \in Times :
          (/\ ActiveVisitsOf(b.doctorId) = {}
           /\ t <= u
           /\ createVisitValidation(b, t) /\ createVisitValidation(b, u)) =>
              LET first == createVisitOutcome(visits, p, b, t)
                  between == Stored(visits, first)
                  second == createVisitOutcome(between, p, b, u)
              IN  /\ Answered(first).status = "CREATED"
                  /\ Len(between) = Len(visits) + 1
                  /\ IsConflict(Answered(second))
                  /\ Stored(between, second) = between

\* One scheduled visit, stored by a create on the empty store: a second
\* create for its doctor is refused, one for the other doctor is not.
C29_Witness ==
    /\ Len(visits) = 1
    /\ visits[1].status = "scheduled"
    /\ \E p \in Patients, b \in PlainVisitBodies(Doctors), t \in Times :
          /\ b.doctorId = visits[1].doctor
          /\ IsConflict(createVisitOutcome(visits, p, b, t).res)
    /\ \E p \in Patients, b \in PlainVisitBodies(Doctors), t \in Times :
          /\ b.doctorId # visits[1].doctor
          /\ createVisitOutcome(visits, p, b, t).write

\* C31: in every reachable state, under any interleaving of start, complete
\* and cancel requests, the endTime of a visit is set exactly when its
\* status is completed, a scheduled visit has no startTime, and a visit in
\* progress has a startTime and no endTime.
C31_TimesFollowStatus ==
    \A i \in DOMAIN visits :
        /\ visits[i].endTime # NullTime <=> visits[i].status = "completed"
        /\ visits[i].status = "scheduled" => visits[i].startTime = NullTime
        /\ visits[i].status = "in_progress" =>
              visits[i].startTime # NullTime /\ visits[i].endTime = NullTime

\* C32: start, complete, the update of the texts, and the add, update and
\* delete of a treatment change a visit only when the requester is the
\* doctor of the visit, and cancel only when the requester is its patient
\* or its doctor; the same request of any other user (another doctor,
\* another patient, a finance user) is answered with an error, and the
\* store is as it was.
C32_OnlyOwnersChange ==
    \A u \in DOMAIN User, i \in DOMAIN visits :
        LET Denied(o) == IsError(Answered(o)) /\ Stored(visits, o) = visits
        IN  /\ u # visits[i].doctor =>
                  /\ \A t \in Times :
                        /\ Denied(startVisitOutcome(visits, u, i, t))
                        /\ Denied(completeVisitOutcome(visits, u, i, t))
                  /\ \A b \in ClinicalBodies \cup ForeignBodies :
                        Denied(updateVisitOutcome(visits, u, i, b))
                  /\ \A b \in InterleavedBodies :
                        Denied(addTreatmentOutcome(visits, u, i, b, nextTid))
                  /\ \A b \in InterleavedBodies, k \in TreatmentIds :
                        Denied(updateTreatmentOutcome(visits, u, i, k, b))
                  /\ \A k \in TreatmentIds :
                        Denied(deleteTreatmentOutcome(visits, u, i, k))
            /\ u \notin {visits[i].patient, visits[i].doctor} =>
                  Denied(cancelVisitOutcome(visits, u, i))

\* A visit in progress with a treatment: its doctor can add, change and
\* delete treatments, complete and cancel it, and the other doctor, who
\* asks for the same, finds no visit.
C32_Witness ==
    \E i \in DOMAIN visits, other \in Doctors :
        /\ other # visits[i].doctor
        /\ visits[i].status = "in_progress"
        /\ visits[i].treatments # <<>>
        /\ completeVisitOutcome(visits, visits[i].doctor, i, MaxTime).write
        /\ completeVisitOutcome(visits, other, i, MaxTime) = Answer(VisitNotFound)
        /\ deleteTreatmentOutcome(visits, visits[i].doctor, i,
                                  visits[i].treatments[1].id).write
        /\ deleteTreatmentOutcome(visits, other, i, visits[i].treatments[1].id)
              = Answer(VisitNotFound)
        /\ cancelVisitOutcome(visits, visits[i].patient, i).write
        /\ cancelVisitOutcome(visits, "p2", i) = Answer(VisitNotFound)
        /\ cancelVisitOutcome(visits, "f1", i).res.status = "FORBIDDEN"

\* C33: on a visit that is neither completed nor cancelled, addTreatment
\* with a unitPrice >= 0 and a quantity >= 1 (or none), followed by
\* deleteTreatment of the treatment just added, leaves the treatment list
\* and totalAmount exactly as they were before the add, whatever other
\* treatments the visit holds.
C33_AddThenDeleteRestores ==
    \A d \in Doctors, i \in DOMAIN visits, b \in TreatmentBodies :
        (/\ findOne(visits, i, d)
         /\ visits[i].status \notin Terminal
         /\ addTreatmentValidation(b)) =>
            LET added == Stored(visits, addTreatmentOutcome(visits, d, i, b, nextTid))
                deleted == Stored(added, deleteTreatmentOutcome(added, d, i, nextTid))
            IN  /\ Len(added[i].treatments) = Len(visits[i].treatments) + 1
                /\ deleted[i].treatments = visits[i].treatments
                /\ deleted[i].totalAmount = visits[i].totalAmount

\* A visit in progress that holds the first treatment, of a price, after a
\* second was added and deleted again.
C33_Witness ==
    /\ nextTid = 3
    /\ \E i \in DOMAIN visits :
          /\ visits[i].status = "in_progress"
          /\ Len(visits[i].treatments) = 1
          /\ visits[i].treatments[1].id = 1
          /\ visits[i].totalAmount = visits[i].treatments[1].totalPrice
          /\ visits[i].totalAmount > 0
          /\ \A j \in DOMAIN visits : j # i => visits[j].treatments = <<>>

RECURSIVE CategoryTotalPrice(_, _)
CategoryTotalPrice(c, n) ==
    IF n = 0 THEN 0
    ELSE LET OfCategory(t) == t.category = c
             held == SelectSeq(visits[n].treatments, OfCategory)
         IN  (IF visits[n].status = "completed"
              THEN SumTotalPrice(held, Len(held)) ELSE 0)
             + CategoryTotalPrice(c, n - 1)

\* The revenues of the entries of a breakdown, added up, in hundredths.
RECURSIVE RevenueShown(_)
RevenueShown(entries) ==
    IF entries = {} THEN 0
    ELSE LET e == CHOOSE x \in entries : TRUE
         IN  Hundredths(e.revenue) + RevenueShown(entries \ {e})

\* Every treatment of a completed visit has a totalPrice of whole cents.
WholeCents ==
    \A i \in DOMAIN visits : visits[i].status = "completed" =>
        \A k \in DOMAIN visits[i].treatments : (4 * visits[i].treatments[k].totalPrice) % 10 = 0

\* C35 as claimed: in every state reached by requests that each run to
\* completion, the revenues of the treatment categories of the dashboard,
\* added up, are the totalRevenue of the dashboard; and the revenue of each
\* category is the sum of totalPrice of the treatments of that category of
\* the completed visits (as the dashboard shows it, with two decimals).
C35_CategoriesAddUp ==
    LET answer == Answered(getDashboardStatsOutcome(visits))
    IN  /\ RevenueShown(answer.treatmentCategories)
              = Hundredths(answer.overall.totalRevenue)
        /\ \A e \in answer.treatmentCategories :
              IsToCents(e.revenue, CategoryTotalPrice(e.category, Len(visits)))

\* C35, amended: the dashboard has one entry for each category of a
\* treatment of a completed visit, and its revenue is the sum of totalPrice
\* of those treatments to the nearest cent.  The revenues added up are the
\* totalRevenue of the dashboard when every such totalPrice is a whole
\* number of cents; otherwise they are within half a cent for each category,
\* and half a cent more, of it.
C35_CategoriesAddUpToTheCent ==
    LET answer == Answered(getDashboardStatsOutcome(visits))
        shown == RevenueShown(answer.treatmentCategories)
        total == Hundredths(answer.overall.totalRevenue)
        n == Cardinality(answer.treatmentCategories)
    IN  /\ \A c \in Categories :
              (CategoryTotalPrice(c, Len(visits)) > 0)
                  => \E e \in answer.treatmentCategories : e.category = c
        /\ \A e \in answer.treatmentCategories :
              /\ \A x \in answer.treatmentCategories : x.category = e.category => x = e
              /\ IsToCents(e.revenue, CategoryTotalPrice(e.category, Len(visits)))
        /\ 10 * (shown - total) <= 5 * (n + 1)
        /\ 10 * (total - shown) <= 5 * (n + 1)
        /\ WholeCents => shown = total

\* Completed visits with a consultation and a medication of two cents each:
\* the dashboard shows 0.02 for each category and 0.04 in all.
C35_Witness ==
    LET answer == Answered(getDashboardStatsOutcome(visits))
    IN  /\ WholeCents
        /\ Cardinality(answer.treatmentCategories) = 2
        /\ \A e \in answer.treatmentCategories :
              e.revenue = [units |-> 0, decimals |-> <<0, 2>>] /\ e.count = 1
        /\ answer.overall.totalRevenue = [units |-> 0, decimals |-> <<0, 4>>]
====
